---- MODULE Spec2Model ----
(***************************************************************************)
(* Model of src/flam.cpp: the FLAM security label pair (confidentiality,   *)
(* integrity) over a decision diagram adapter, and the run_flam driver.    *)
(*                                                                         *)
(* A decision diagram (dd_type) is modelled by the Boolean function it     *)
(* denotes: the set of assignments that satisfy it, an assignment being    *)
(* the set of variables it makes true.  The adapter (common/adapter.h) is  *)
(* not part of src/flam.cpp; its operations follow the backend contract.   *)
(***************************************************************************)
EXTENDS Integers, Sequences, FiniteSets

(***************************************************************************)
(* Bounds and program constants                                            *)
(***************************************************************************)
\* number of variables run_flam hands to the harness: run<Adapter>("flam", 2, ...)
varcount == 2
\* largest number of distinct label values alive in the benchmark computation
MaxLabels == 4
\* largest number of command line options
MaxArgs == 2

Vars == 0 .. (varcount - 1)
Assignments == SUBSET Vars

\* the files that exist, and the paths a user may name with -f
Files == {"model.xml"}
Paths == {"model.xml", "missing.xml"}
\* the option characters a user may give; 'f' is the only one args = "f:" knows
OptChars == {"f", "x"}
Options == [c : OptChars, arg : Paths]

(***************************************************************************)
(* Adapter: the Boolean function backend                                   *)
(***************************************************************************)
ithvar(id) == {s \in Assignments : id \in s}

a_top == Assignments

a_bot == {}

apply_and(f, g) == f \cap g

apply_or(f, g) == f \cup g

is_imp(f, g) == \A s \in Assignments : (s \in f) => (s \in g)

satcount(f) == Cardinality(f)

\* cofactor of f below level k: the assignments of the variables >= k that
\* satisfy f once the variables < k are fixed as in p
cofactor(f, k, p) == {t \in SUBSET {v \in Vars : v >= k} : (p \cup t) \in f}

\* the cofactor depends on variable k: it is the root of a diagram node at level k
depends(f, k, p) ==
  {t \in cofactor(f, k, p) : k \notin t} /= {t \ {k} : t \in {u \in cofactor(f, k, p) : k \in u}}

\* number of internal nodes of the reduced ordered diagram of f
nodecount(f) ==
  Cardinality({<<k, cofactor(f, k, p)>> : <<k, p>> \in
     {kp \in Vars \X Assignments : kp[2] \subseteq {v \in Vars : v < kp[1]} /\ depends(f, kp[1], kp[2])}})

(***************************************************************************)
(* label<Adapter>                                                          *)
(***************************************************************************)
\* private constructor label(c, i)
label(c, i) == [confidentiality |-> c, integrity |-> i]

\* label(a, c, i)
label_vars(c, i) == label(ithvar(c), ithvar(i))

\* label(a, ci)
label_var(ci) == label_vars(ci, ci)


\* top with the components of bot
label_top_swapped == label(a_top, a_bot)

label_top == label(a_bot, a_top)

label_bot == label(a_top, a_bot)

label_nil == label(a_top, a_top)

label_root == label(a_bot, a_bot)


\* flows_to with the confidentiality test in the direction of acts_for
flows_to_monotone(this, other) ==
  LET c_constraint == is_imp(this.confidentiality, other.confidentiality)
      i_constraint == is_imp(this.integrity, other.integrity)
  IN  c_constraint /\ i_constraint

\* flows_to that accepts when either constraint holds
flows_to_either(this, other) ==
  LET c_constraint == is_imp(other.confidentiality, this.confidentiality)
      i_constraint == is_imp(this.integrity, other.integrity)
  IN  c_constraint \/ i_constraint

flows_to(this, other) ==
  LET c_constraint == is_imp(other.confidentiality, this.confidentiality)
      i_constraint == is_imp(this.integrity, other.integrity)
  IN  c_constraint /\ i_constraint


\* acts_for with the confidentiality test in the direction of flows_to
acts_for_antitone(this, other) ==
  LET c_constraint == is_imp(other.confidentiality, this.confidentiality)
      i_constraint == is_imp(this.integrity, other.integrity)
  IN  c_constraint /\ i_constraint

acts_for(this, other) ==
  LET c_constraint == is_imp(this.confidentiality, other.confidentiality)
      i_constraint == is_imp(this.integrity, other.integrity)
  IN  c_constraint /\ i_constraint


\* join that joins the integrity with conjunction as well
join_and_and(this, other) ==
  label(apply_and(this.confidentiality, other.confidentiality),
        apply_and(this.integrity, other.integrity))

\* join that keeps the integrity of the receiver
join_keep_integrity(this, other) ==
  label(apply_and(this.confidentiality, other.confidentiality), this.integrity)

join(this, other) ==
  label(apply_and(this.confidentiality, other.confidentiality),
        apply_or(this.integrity, other.integrity))


\* meet that meets the confidentiality with conjunction as well
meet_and_and(this, other) ==
  label(apply_and(this.confidentiality, other.confidentiality),
        apply_and(this.integrity, other.integrity))

meet(this, other) ==
  label(apply_or(this.confidentiality, other.confidentiality),
        apply_and(this.integrity, other.integrity))


\* view that keeps the confidentiality of the receiver
view_keep_confidentiality(this) == label(this.confidentiality, a_top)

view(this) == label(this.integrity, a_top)

voice(this) == label(a_top, this.confidentiality)

\* the four numbers to_string prints: nodecount|satcount of each component
to_string(this) ==
  <<nodecount(this.confidentiality), satcount(this.confidentiality),
    nodecount(this.integrity), satcount(this.integrity)>>

(***************************************************************************)
(* State                                                                   *)
(***************************************************************************)
VARIABLES
  path,         \* the global std::string path
  argv,         \* the command line options not yet parsed
  should_exit,  \* what the option parser has decided so far
  pc,           \* position in run_flam: "parse", "run" or "done"
  status,       \* the value run_flam returned, once pc = "done"
  labels,       \* the label values alive in the benchmark computation
  nodes,        \* the formulas the adapter has built so far
  ret           \* the last call on a label and what it returned

vars == <<path, argv, should_exit, pc, status, labels, nodes, ret>>

NoCall == [op |-> "none"]

ArgSeqs == UNION {[1 .. n -> Options] : n \in 0 .. MaxArgs}

Init ==
  /\ path = ""
  /\ argv \in ArgSeqs
  /\ should_exit = FALSE
  /\ pc = "parse"
  /\ status = 0
  /\ labels = {}
  /\ nodes = {}
  /\ ret = NoCall

(***************************************************************************)
(* Parameter parsing                                                       *)
(***************************************************************************)

\* parse_input that stores the path before it looks for the file
parse_input_store_first(c, arg, p) ==
  IF c = "f"
    THEN IF arg \notin Files THEN <<TRUE, arg>> ELSE <<FALSE, arg>>
    ELSE <<TRUE, p>>

\* parsing_policy::parse_input: the pair <<should exit, new path>>
parse_input(c, arg, p) ==
  IF c = "f"
    THEN IF arg \notin Files THEN <<TRUE, p>> ELSE <<FALSE, arg>>
    ELSE <<TRUE, p>>

\* parse_input<parsing_policy> hands the next option to the policy
ParseOption ==
  /\ pc = "parse"
  /\ argv /= <<>>
  /\ LET r == parse_input(Head(argv).c, Head(argv).arg, path)
     IN  /\ should_exit' = (should_exit \/ r[1])
         /\ path' = r[2]
  /\ argv' = Tail(argv)
  /\ UNCHANGED <<pc, status, labels, nodes, ret>>

\* run_flam after parse_input<parsing_policy> returned: the two early returns.
\* The parser may return as soon as an option asks to exit, or after the last one.
SetupFails ==
  /\ pc = "parse"
  /\ argv = <<>> \/ should_exit
  /\ should_exit \/ path = ""
  /\ pc' = "done"
  /\ status' = -1
  /\ UNCHANGED <<path, argv, should_exit, labels, nodes, ret>>

\* run_flam enters the benchmark computation: alice and bob are constructed
RunStart ==
  /\ pc = "parse"
  /\ argv = <<>>
  /\ ~should_exit
  /\ path /= ""
  /\ pc' = "run"
  /\ labels' = {label_var(0), label_var(1)}
  /\ nodes' = nodes \cup {ithvar(0), ithvar(1)}
  /\ UNCHANGED <<path, argv, should_exit, status, ret>>

\* the benchmark computation returns 0
RunReturn ==
  /\ pc = "run"
  /\ pc' = "done"
  /\ status' = 0
  /\ UNCHANGED <<path, argv, should_exit, labels, nodes, ret>>

(***************************************************************************)
(* Calls on labels                                                         *)
(***************************************************************************)

\* a method that writes its result into the receiver and returns it
ReturnedInPlace(ls, this, l) == (ls \ {this}) \cup {l}

\* the labels alive after a call on this that returned the new label l:
\* every method is const in effect, the result is a fresh value
Returned(ls, this, l) == ls \cup {l}

\* a constructor or static factory returned l
Constructed(call, l) ==
  /\ pc = "run"
  /\ Cardinality(labels) < MaxLabels
  /\ labels' = labels \cup {l}
  /\ nodes' = nodes \cup {l.confidentiality, l.integrity}
  /\ ret' = call
  /\ UNCHANGED <<path, argv, should_exit, pc, status>>

\* a method of this returned the new label l
Combined(call, this, l) ==
  /\ pc = "run"
  /\ Cardinality(labels) < MaxLabels
  /\ labels' = Returned(labels, this, l)
  /\ nodes' = nodes \cup {l.confidentiality, l.integrity}
  /\ ret' = call
  /\ UNCHANGED <<path, argv, should_exit, pc, status>>

\* a method returned something that is no label
Queried(call) ==
  /\ pc = "run"
  /\ ret' = call
  /\ UNCHANGED <<path, argv, should_exit, pc, status, labels, nodes>>

ConstructVar ==
  \E ci \in Vars :
    Constructed([op |-> "label", c |-> ci, i |-> ci, val |-> label_var(ci)], label_var(ci))

ConstructVars ==
  \E c \in Vars, i \in Vars :
    Constructed([op |-> "label", c |-> c, i |-> i, val |-> label_vars(c, i)], label_vars(c, i))

Top == Constructed([op |-> "top", val |-> label_top], label_top)

Bot == Constructed([op |-> "bot", val |-> label_bot], label_bot)

Nil == Constructed([op |-> "nil", val |-> label_nil], label_nil)

Root == Constructed([op |-> "root", val |-> label_root], label_root)

Join ==
  \E this \in labels, other \in labels :
    Combined([op |-> "join", this |-> this, other |-> other, val |-> join(this, other)],
             this, join(this, other))

Meet ==
  \E this \in labels, other \in labels :
    Combined([op |-> "meet", this |-> this, other |-> other, val |-> meet(this, other)],
             this, meet(this, other))

View ==
  \E this \in labels :
    Combined([op |-> "view", this |-> this, val |-> view(this)], this, view(this))

Voice ==
  \E this \in labels :
    Combined([op |-> "voice", this |-> this, val |-> voice(this)], this, voice(this))

FlowsTo ==
  \E this \in labels, other \in labels :
    Queried([op |-> "flows_to", this |-> this, other |-> other, val |-> flows_to(this, other)])

ActsFor ==
  \E this \in labels, other \in labels :
    Queried([op |-> "acts_for", this |-> this, other |-> other, val |-> acts_for(this, other)])

ToStr ==
  \E this \in labels :
    Queried([op |-> "to_string", this |-> this, val |-> to_string(this)])

Next ==
  \/ ParseOption
  \/ SetupFails
  \/ RunStart
  \/ RunReturn
  \/ ConstructVar
  \/ ConstructVars
  \/ Top
  \/ Bot
  \/ Nil
  \/ Root
  \/ Join
  \/ Meet
  \/ View
  \/ Voice
  \/ FlowsTo
  \/ ActsFor
  \/ ToStr

Spec == Init /\ [][Next]_vars

(***************************************************************************)
(* Properties                                                              *)
(***************************************************************************)
\* f => g is a tautology: every assignment that satisfies f satisfies g
Entails(f, g) == f \subseteq g

\* f is the constant true formula
IsTrue(f) == f = Assignments

\* u is an upper bound of a and b in the flows-to order
UpperBound(u, a, b) == flows_to(a, u) /\ flows_to(b, u)

\* l is a lower bound of a and b in the flows-to order
LowerBound(l, a, b) == flows_to(l, a) /\ flows_to(l, b)

\* C1: flows_to(A, B) returns true exactly when B.confidentiality => A.confidentiality
\* and A.integrity => B.integrity are both tautologies.
FlowsToContract ==
  ret.op = "flows_to" =>
    (ret.val <=> (/\ Entails(ret.other.confidentiality, ret.this.confidentiality)
                  /\ Entails(ret.this.integrity, ret.other.integrity)))

\* flows_to answered false although the confidentiality implication holds:
\* the integrity implication alone failed
FlowsToContractWitness ==
  /\ ret.op = "flows_to"
  /\ ~ret.val
  /\ Entails(ret.other.confidentiality, ret.this.confidentiality)
  /\ ~Entails(ret.this.integrity, ret.other.integrity)

\* C2: acts_for(A, B) returns true exactly when A.confidentiality => B.confidentiality
\* and A.integrity => B.integrity are both tautologies.
ActsForContract ==
  ret.op = "acts_for" =>
    (ret.val <=> (/\ Entails(ret.this.confidentiality, ret.other.confidentiality)
                  /\ Entails(ret.this.integrity, ret.other.integrity)))

\* acts_for answered true for two different labels of which the receiver's
\* confidentiality is strictly stronger
ActsForContractWitness ==
  /\ ret.op = "acts_for"
  /\ ret.val
  /\ ret.this /= ret.other
  /\ ~Entails(ret.other.confidentiality, ret.this.confidentiality)

\* C3: every label built by the constructors and by join, meet, view and voice
\* lies between bot() = <true, false> and top() = <false, true> in the flows-to order.
LatticeBounds ==
  \A l \in labels :
    /\ label_bot = [confidentiality |-> Assignments, integrity |-> {}]
    /\ label_top = [confidentiality |-> {}, integrity |-> Assignments]
    /\ flows_to(label_bot, l)
    /\ flows_to(l, label_top)

\* a label returned by a combinator that is neither top nor bot is alive
LatticeBoundsWitness ==
  /\ ret.op \in {"join", "meet", "view", "voice"}
  /\ ret.val \in labels
  /\ ret.val \notin {label_top, label_bot}
  /\ label_top \in labels

\* C4: flows_to is a partial order on labels: reflexive, antisymmetric (labels that
\* flow to each other have the same two formulas) and transitive.
FlowsToPartialOrder ==
  /\ \A l \in labels : flows_to(l, l)
  /\ \A a \in labels, b \in labels :
       flows_to(a, b) /\ flows_to(b, a) =>
         a.confidentiality = b.confidentiality /\ a.integrity = b.integrity
  /\ \A a \in labels, b \in labels, c \in labels :
       flows_to(a, b) /\ flows_to(b, c) => flows_to(a, c)

\* flows_to answered true for two different labels, and the target flows on to a third
FlowsToPartialOrderWitness ==
  /\ ret.op = "flows_to"
  /\ ret.val
  /\ ret.this /= ret.other
  /\ \E c \in labels \ {ret.this, ret.other} : flows_to(ret.other, c)

\* C5: join(A, B) = <A.c AND B.c, A.i OR B.i> is the least upper bound of A and B
\* under flows_to.
JoinIsLeastUpperBound ==
  \A a \in labels, b \in labels :
    /\ join(a, b).confidentiality = a.confidentiality \cap b.confidentiality
    /\ join(a, b).integrity = a.integrity \cup b.integrity
    /\ UpperBound(join(a, b), a, b)
    /\ \A c \in labels : UpperBound(c, a, b) => flows_to(join(a, b), c)

\* join returned the bound of two labels that do not flow to each other, and a
\* different upper bound of the two is alive
JoinIsLeastUpperBoundWitness ==
  /\ ret.op = "join"
  /\ ~flows_to(ret.this, ret.other)
  /\ ~flows_to(ret.other, ret.this)
  /\ ret.val \in labels
  /\ \E c \in labels \ {ret.val} : UpperBound(c, ret.this, ret.other)

\* C6: meet(A, B) = <A.c OR B.c, A.i AND B.i> is the greatest lower bound of A and B
\* under flows_to.
MeetIsGreatestLowerBound ==
  \A a \in labels, b \in labels :
    /\ meet(a, b).confidentiality = a.confidentiality \cup b.confidentiality
    /\ meet(a, b).integrity = a.integrity \cap b.integrity
    /\ LowerBound(meet(a, b), a, b)
    /\ \A c \in labels : LowerBound(c, a, b) => flows_to(c, meet(a, b))

\* meet returned the bound of two labels that do not flow to each other, and a
\* different lower bound of the two is alive
MeetIsGreatestLowerBoundWitness ==
  /\ ret.op = "meet"
  /\ ~flows_to(ret.this, ret.other)
  /\ ~flows_to(ret.other, ret.this)
  /\ ret.val \in labels
  /\ \E c \in labels \ {ret.val} : LowerBound(c, ret.this, ret.other)

\* C7: join and meet are commutative, and join(A, B) equals B whenever A flows to B.
JoinMeetLaws ==
  \A a \in labels, b \in labels :
    /\ join(a, b) = join(b, a)
    /\ meet(a, b) = meet(b, a)
    /\ flows_to(a, b) =>
         /\ \A s \in Assignments :
              s \in join(a, b).confidentiality <=> s \in b.confidentiality
         /\ \A s \in Assignments :
              s \in join(a, b).integrity <=> s \in b.integrity

\* join was called on a label and a different label it flows to, and returned the latter
JoinMeetLawsWitness ==
  /\ ret.op = "join"
  /\ ret.this /= ret.other
  /\ flows_to(ret.this, ret.other)
  /\ ret.val = ret.other
  /\ ret.this.integrity /= ret.other.integrity

\* C8: view(L) = <L.integrity, true> and voice(L) = <true, L.confidentiality>, and
\* view(voice(L)) differs from L for the label L of variable 0.
ViewVoice ==
  /\ ret.op = "view" =>
       /\ ret.val.confidentiality = ret.this.integrity
       /\ IsTrue(ret.val.integrity)
  /\ ret.op = "voice" =>
       /\ IsTrue(ret.val.confidentiality)
       /\ ret.val.integrity = ret.this.confidentiality
  /\ \A l \in labels :
       /\ view(l) = [confidentiality |-> l.integrity, integrity |-> Assignments]
       /\ voice(l) = [confidentiality |-> Assignments, integrity |-> l.confidentiality]
  /\ label_var(0) \in labels => view(voice(label_var(0))) /= label_var(0)

\* view was called on a voice of a label whose two formulas differ, and what it
\* returned is not the label the voice was taken of
ViewVoiceWitness ==
  /\ ret.op = "view"
  /\ ret.this.confidentiality /= ret.this.integrity
  /\ \E l \in labels : ret.this = voice(l) /\ ret.val /= l /\ l = label_var(0)

\* C9: labels are immutable values: no call removes or changes a label that is alive
\* or a formula the adapter has built; a call adds at most the label it returns, and
\* flows_to, acts_for and to_string add none.
LabelsImmutable ==
  [][/\ labels \subseteq labels'
     /\ nodes \subseteq nodes'
     /\ Cardinality(labels') <= Cardinality(labels) + 1 \/ labels = {}
     /\ (ret' /= ret /\ ret'.op \in {"flows_to", "acts_for", "to_string"}) =>
          labels' = labels /\ nodes' = nodes]_vars

\* join returned a label other than its receiver and its argument, and both are
\* still alive next to it
LabelsImmutableWitness ==
  /\ ret.op = "join"
  /\ ret.val \notin {ret.this, ret.other}
  /\ {ret.this, ret.other, ret.val} \subseteq labels

\* what run_flam has established whenever its setup failed, and before it computes
SetupInvariant ==
  /\ (pc = "done" /\ (should_exit \/ path = "")) =>
       status = -1 /\ labels = {} /\ nodes = {} /\ ret = NoCall
  /\ pc = "run" => ~should_exit /\ path /= ""
  /\ labels /= {} => ~should_exit /\ path /= ""

\* what one call of parsing_policy::parse_input does to path and to the exit request
ParseStep ==
  (pc = "parse" /\ argv /= <<>> /\ argv' = Tail(argv)) =>
    IF Head(argv).c = "f" /\ Head(argv).arg \in Files
      THEN path' = Head(argv).arg /\ should_exit' = should_exit
      ELSE path' = path /\ should_exit'

\* C10: run_flam returns -1 without constructing any label when parsing asks to exit
\* or no path is set; a rejected option leaves path unchanged and asks to exit, an
\* accepted -f sets path to its argument and does not ask to exit.
SetupFailure == []SetupInvariant /\ [][ParseStep]_vars

\* run_flam returned -1 after an accepted -f was followed by a rejected option:
\* path still names the accepted file
SetupFailureWitness ==
  /\ pc = "done"
  /\ status = -1
  /\ should_exit
  /\ path = "model.xml"
  /\ labels = {}

====
